---- MODULE Spec2Model ----
(***************************************************************************)
(* Model of src/server.py, the "Pagila Server" MCP tool server.            *)
(*                                                                         *)
(* Four coroutines are exposed as tools: list_tables, run_select_query,    *)
(* list_creative_customers and business_advisor_agent.  They run as tasks  *)
(* of one asyncio event loop, so the code between two awaits is one atomic *)
(* step and the awaits (connect, execute, fetch, close) are the points     *)
(* where invocations interleave.  One action below is one such segment.    *)
(*                                                                         *)
(* Text is modelled as a sequence of one-character strings, so that        *)
(* upper(), strip(), startswith(), the `in` substring test and the [:-1]   *)
(* slice are computed character by character, as Python computes them.     *)
(***************************************************************************)
EXTENDS Integers, Sequences, FiniteSets, TLC

\* ------------------------------------------------------------------ bounds

\* Number of concurrent tool invocations (tasks of the event loop).
NumInv == 2

\* Longest caller query of the gate's exhaustive input set, in fragments.
MaxFrags == 3

Inv == 1..NumInv

\* ------------------------------------------------------- Python str helpers

\* str.upper() on one character (ASCII letters; every other character of the
\* model's alphabet is left as it is).
UpperChar(c) ==
    CASE c = "a" -> "A" [] c = "b" -> "B" [] c = "c" -> "C" [] c = "d" -> "D"
      [] c = "e" -> "E" [] c = "f" -> "F" [] c = "g" -> "G" [] c = "h" -> "H"
      [] c = "i" -> "I" [] c = "j" -> "J" [] c = "k" -> "K" [] c = "l" -> "L"
      [] c = "m" -> "M" [] c = "n" -> "N" [] c = "o" -> "O" [] c = "p" -> "P"
      [] c = "q" -> "Q" [] c = "r" -> "R" [] c = "s" -> "S" [] c = "t" -> "T"
      [] c = "u" -> "U" [] c = "v" -> "V" [] c = "w" -> "W" [] c = "x" -> "X"
      [] c = "y" -> "Y" [] c = "z" -> "Z" [] OTHER -> c

\* str.upper()
Upper(s) == [k \in 1..Len(s) |-> UpperChar(s[k])]

\* The characters str.strip() removes (of the model's alphabet).
Whitespace == {" ", "\t", "\n"}

\* str.strip(): drop the leading and the trailing whitespace.
Strip(s) ==
    LET keep == {k \in 1..Len(s) : s[k] \notin Whitespace}
    IN  IF keep = {} THEN << >>
        ELSE LET first == CHOOSE k \in keep : \A j \in keep : k <= j
                 last  == CHOOSE k \in keep : \A j \in keep : j <= k
             IN  SubSeq(s, first, last)

\* str.startswith(p)
StartsWith(s, p) == Len(s) >= Len(p) /\ SubSeq(s, 1, Len(p)) = p

\* p in s
Contains(s, p) ==
    \E k \in 1..(Len(s) - Len(p) + 1) : SubSeq(s, k, k + Len(p) - 1) = p

\* Faulty variant of SinUltimo: the slice forgotten, so that a trailing ';'
\* counts as a separator.
SinUltimoEntero(s) == s

\* s[:-1]: all but the last character (the empty string stays empty).
SinUltimo(s) == IF Len(s) = 0 THEN << >> ELSE SubSeq(s, 1, Len(s) - 1)

\* ------------------------------------------------------ security settings

SELECT == <<"S","E","L","E","C","T">>

PALABRAS_PROHIBIDAS ==
    << <<"D","R","O","P">>,
       <<"D","E","L","E","T","E">>,
       <<"U","P","D","A","T","E">>,
       <<"T","R","U","N","C","A","T","E">>,
       <<"A","L","T","E","R">>,
       <<"G","R","A","N","T">>,
       <<"I","N","S","E","R","T">> >>

\* ------------------------------------------------------- results of a call

\* What an invocation hands to its caller: a returned string (a fixed text
\* msg and the interpolated part arg) or a raised exception.
NoResult == [how |-> "none", msg |-> "", arg |-> << >>, exc |-> "", origin |-> ""]

Return(msg, arg) ==
    [how |-> "return", msg |-> msg, arg |-> arg, exc |-> "", origin |-> ""]

Raise(exc, origin) ==
    [how |-> "raise", msg |-> "", arg |-> << >>, exc |-> exc, origin |-> origin]

MSG_NO_SELECT   == "ERROR DE SEGURIDAD: Solo se permiten consultas SELECT."
MSG_PROHIBIDA   == "ERROR DE SEGURIDAD: Uso prohibido de '{palabra}'."
MSG_MULTI       == "ERROR DE SEGURIDAD: No se permiten multiples sentencias."
MSG_SIN_FILAS   == "La consulta no devolvio resultados."
MSG_RESULTADOS  == "Resultados ({len(rows)} filas):"
MSG_ERROR_DB    == "ERROR DE BASE DE DATOS: {str(e)}"
MSG_ERROR_SIS   == "ERROR DEL SISTEMA: {str(e)}"
MSG_REPORTE     == "report"

MOTIVO_NO_SELECT == "COMANDO NO AUTORIZADO (No empezo con SELECT)"
MOTIVO_PROHIBIDA == "PALABRA PROHIBIDA DETECTADA: {palabra}"
MOTIVO_MULTI     == "INTENTO DE MULTI-QUERY (Inyeccion)"
MOTIVO_ERROR_DB  == "ERROR DB: {str(e)}"

\* ------------------------------------------------------------ the gate

\* Faulty variant of BuscarProhibida: the word that stands first in the
\* text is reported, not the first of the list.
BuscarProhibidaPorPosicion(query_upper, k) ==
    LET Pos(j) == CHOOSE n \in 1..Len(query_upper) :
                      /\ SubSeq(query_upper, n, n + Len(PALABRAS_PROHIBIDAS[j]) - 1)
                             = PALABRAS_PROHIBIDAS[j]
                      /\ \A m \in 1..(n - 1) :
                             SubSeq(query_upper, m, m + Len(PALABRAS_PROHIBIDAS[j]) - 1)
                                 # PALABRAS_PROHIBIDAS[j]
        hits == {j \in k..Len(PALABRAS_PROHIBIDAS) :
                     Contains(query_upper, PALABRAS_PROHIBIDAS[j])}
    IN  IF hits = {} THEN 0
        ELSE CHOOSE j \in hits : \A h \in hits : Pos(j) <= Pos(h)

\* Faulty variant of BuscarProhibida: the loop stops one entry early.
RECURSIVE BuscarProhibidaCorta(_, _)
BuscarProhibidaCorta(query_upper, k) ==
    IF k >= Len(PALABRAS_PROHIBIDAS) THEN 0
    ELSE IF Contains(query_upper, PALABRAS_PROHIBIDAS[k]) THEN k
    ELSE BuscarProhibidaCorta(query_upper, k + 1)

\* for palabra in PALABRAS_PROHIBIDAS: if palabra in query_upper
\* The index of the first list entry found in query_upper, 0 when none is.
RECURSIVE BuscarProhibida(_, _)
BuscarProhibida(query_upper, k) ==
    IF k > Len(PALABRAS_PROHIBIDAS) THEN 0
    ELSE IF Contains(query_upper, PALABRAS_PROHIBIDAS[k]) THEN k
    ELSE BuscarProhibida(query_upper, k + 1)

Rejected(reason, palabra, motivo, mensaje) ==
    [outcome |-> "Rejected", reason |-> reason, palabra |-> palabra,
     motivo |-> [text |-> motivo, arg |-> palabra],
     mensaje |-> Return(mensaje, palabra)]

Allowed ==
    [outcome |-> "Allowed", reason |-> "", palabra |-> << >>,
     motivo |-> [text |-> "", arg |-> << >>], mensaje |-> NoResult]

\* Faulty variant of Validate: the multiple-statements check left out.
ValidateNoMulti(query) ==
    LET query_upper == Strip(Upper(query))
        k == BuscarProhibida(query_upper, 1)
    IN  IF ~StartsWith(query_upper, SELECT)
        THEN Rejected("NotSelect", << >>, MOTIVO_NO_SELECT, MSG_NO_SELECT)
        ELSE IF k # 0
        THEN Rejected("ForbiddenKeyword", PALABRAS_PROHIBIDAS[k],
                      MOTIVO_PROHIBIDA, MSG_PROHIBIDA)
        ELSE Allowed

\* Faulty variant of Validate: the forbidden-word loop placed before the
\* SELECT check.
ValidateKeywordFirst(query) ==
    LET query_upper == Strip(Upper(query))
        k == BuscarProhibida(query_upper, 1)
    IN  IF k # 0
        THEN Rejected("ForbiddenKeyword", PALABRAS_PROHIBIDAS[k],
                      MOTIVO_PROHIBIDA, MSG_PROHIBIDA)
        ELSE IF ~StartsWith(query_upper, SELECT)
        THEN Rejected("NotSelect", << >>, MOTIVO_NO_SELECT, MSG_NO_SELECT)
        ELSE IF Contains(SinUltimo(Strip(query)), <<";">>)
        THEN Rejected("MultiStatement", << >>, MOTIVO_MULTI, MSG_MULTI)
        ELSE Allowed

\* Faulty variant of Validate: SELECT looked for anywhere in the text
\* instead of at its start.
ValidateSelectAnywhere(query) ==
    LET query_upper == Strip(Upper(query))
        k == BuscarProhibida(query_upper, 1)
    IN  IF ~Contains(query_upper, SELECT)
        THEN Rejected("NotSelect", << >>, MOTIVO_NO_SELECT, MSG_NO_SELECT)
        ELSE IF k # 0
        THEN Rejected("ForbiddenKeyword", PALABRAS_PROHIBIDAS[k],
                      MOTIVO_PROHIBIDA, MSG_PROHIBIDA)
        ELSE IF Contains(SinUltimo(Strip(query)), <<";">>)
        THEN Rejected("MultiStatement", << >>, MOTIVO_MULTI, MSG_MULTI)
        ELSE Allowed

\* The security layer of run_select_query: the three checks, in the code's
\* order, each returning at its first hit.
Validate(query) ==
    LET query_upper == Strip(Upper(query))
        k == BuscarProhibida(query_upper, 1)
    IN  IF ~StartsWith(query_upper, SELECT)
        THEN Rejected("NotSelect", << >>, MOTIVO_NO_SELECT, MSG_NO_SELECT)
        ELSE IF k # 0
        THEN Rejected("ForbiddenKeyword", PALABRAS_PROHIBIDAS[k],
                      MOTIVO_PROHIBIDA, MSG_PROHIBIDA)
        ELSE IF Contains(SinUltimo(Strip(query)), <<";">>)
        THEN Rejected("MultiStatement", << >>, MOTIVO_MULTI, MSG_MULTI)
        ELSE Allowed

\* ------------------------------------------------------------- inputs

Q_DropTable == <<"D","R","O","P"," ","T","A","B","L","E"," ","c","u","s","t","o","m","e","r",";">>
Q_TwoSelects == <<"S","E","L","E","C","T"," ","*"," ","F","R","O","M"," ","c","u","s","t","o","m","e","r",";"," ","S","E","L","E","C","T"," ","*"," ","F","R","O","M"," ","p","a","y","m","e","n","t">>
Q_WhereFalse == <<"S","E","L","E","C","T"," ","1"," ","W","H","E","R","E"," ","F","A","L","S","E">>
Q_Nonexistent == <<"s","e","l","e","c","t"," ","*"," ","f","r","o","m"," ","n","o","n","e","x","i","s","t","e","n","t","_","t","a","b","l","e">>
Q_UpdatedAt == <<" ","s","e","l","e","c","t"," ","u","p","d","a","t","e","d","_","a","t"," ","f","r","o","m"," ","f","i","l","m",";","\n">>
Q_StackedDrop == <<"S","E","L","E","C","T"," ","1",";"," ","D","R","O","P"," ","T","A","B","L","E"," ","x">>

\* The caller queries of the concurrent specification.
Queries ==
    {Q_DropTable, Q_TwoSelects, Q_WhereFalse, Q_UpdatedAt, Q_StackedDrop}

\* The pieces the gate's exhaustive inputs are built from.
Frags ==
    { SELECT, <<"s","e","l","e","c","t">>, <<"S","E","L">>,
      <<" ">>, <<"\n">>, <<";">>, <<"x">>,
      <<"D","R","O","P">>, <<"d","e","l","e","t","e">>,
      <<"u","p","d","a","t","e","d","_","a","t">>,
      <<"I","n","s","e","r","t">> }

\* Every concatenation of at most n fragments.
RECURSIVE FragQueries(_)
FragQueries(n) ==
    IF n = 0 THEN {<< >>}
    ELSE LET shorter == FragQueries(n - 1)
         IN  shorter \cup {q \o f : q \in shorter, f \in Frags}

GateInputs == FragQueries(MaxFrags) \cup Queries \cup {Q_Nonexistent}

\* total_spent of one customer row: SQL NULL (no payment) or an amount, in
\* cents (payment.amount is numeric(5,2)).
NullTotal == [null |-> TRUE, cents |-> 0]
Total(c) == [null |-> FALSE, cents |-> c]

\* Largest total_spent of the tier inputs, in cents.
MaxCents == 20000

Totals == {NullTotal} \cup {Total(c) : c \in 0..MaxCents}

\* Spend 200, 120, none and 0: one customer of each kind.
ScenarioRows == <<Total(20000), Total(12000), NullTotal, Total(0)>>

\* The results of the customer query: every single row, and some longer ones.
TierRows ==
    {<<t>> : t \in Totals}
        \cup {<< >>, ScenarioRows, <<Total(15000), Total(15001), Total(10000), Total(10001)>>}

ReportingOps == {"list_tables", "list_creative_customers", "business_advisor_agent"}
Ops == ReportingOps \cup {"run_select_query"}

\* ------------------------------------------------------------- state

VARIABLES
    op,       \* op[i]: the tool invocation i runs ("" before it is called)
    query,    \* query[i]: the caller's query text (run_select_query)
    pc,       \* pc[i]: where invocation i is suspended
    pending,  \* pending[i]: what the try block decided, delivered after finally
    result,   \* result[i]: what the caller received
    dbops,    \* dbops[i]: the database calls of invocation i, in order
    log,      \* alertas_seguridad.log: the appended lines, in order
    customers \* the rows list_creative_customers' query yields: total_spent
              \* of each customer, as the database holds it

vars == <<op, query, pc, pending, result, dbops, log, customers>>

\* Faulty variant of registrar_alerta_seguridad: the line is written with
\* the normalised text (query_upper) instead of the caller's.
registrar_query_upper(sink, i, q, motivo) ==
    Append(sink, [inv |-> i, motivo |-> motivo, query |-> Strip(Upper(q))])

\* Faulty variant of registrar_alerta_seguridad: the file opened with "w",
\* so that each alert replaces the lines before it.
registrar_truncando(sink, i, q, motivo) ==
    <<[inv |-> i, motivo |-> motivo, query |-> q]>>

\* One line of alertas_seguridad.log: the reason and the query text it was
\* written with.  inv is a history field (the writer), not part of the line.
registrar_alerta_seguridad(sink, i, q, motivo) ==
    Append(sink, [inv |-> i, motivo |-> motivo, query |-> q])

DbCall(call, stmt, ok) == [call |-> call, stmt |-> stmt, ok |-> ok]


READ_ONLY == <<"SET SESSION CHARACTERISTICS AS TRANSACTION READ ONLY">>
FIXED_SQL == <<"fixed query of the tool">>

Init ==
    /\ op = [i \in Inv |-> ""]
    /\ query = [i \in Inv |-> << >>]
    /\ pc = [i \in Inv |-> "idle"]
    /\ pending = [i \in Inv |-> NoResult]
    /\ result = [i \in Inv |-> NoResult]
    /\ dbops = [i \in Inv |-> << >>]
    /\ log = << >>
    /\ customers = ScenarioRows

\* ------------------------------------------------------------- actions

\* What a failing database call raises: asyncpg.PostgresError (the server
\* refused or failed the call) or an exception outside that class
\* (asyncpg.InterfaceError, OSError of the transport).
DbExceptions == {"PostgresError", "InterfaceError"}
ConnectExceptions == {"PostgresError", "OSError"}

Finish(i, r) ==
    /\ pc' = [pc EXCEPT ![i] = "done"]
    /\ result' = [result EXCEPT ![i] = r]

\* The caller invokes tool o.  A reporting tool awaits get_db_connection()
\* at once; run_select_query first runs its security layer.
Call(i, o, q) ==
    /\ pc[i] = "idle"
    /\ op' = [op EXCEPT ![i] = o]
    /\ query' = [query EXCEPT ![i] = q]
    /\ pc' = [pc EXCEPT ![i] = IF o = "run_select_query" THEN "gate" ELSE "connect"]
    /\ UNCHANGED <<customers, pending, result, dbops, log>>

\* run_select_query up to its first await: the security layer.  A rejected
\* query is logged and answered here; open() or write() of the log may
\* raise OSError, which nothing in run_select_query catches.
RunSelectGate(i) ==
    /\ pc[i] = "gate"
    /\ LET v == Validate(query[i])
       IN  IF v.outcome = "Rejected"
           THEN \E written \in BOOLEAN :
                  IF written
                  THEN /\ log' = registrar_alerta_seguridad(log, i, query[i], v.motivo)
                       /\ Finish(i, v.mensaje)
                  ELSE /\ log' = log
                       /\ Finish(i, Raise("OSError", "alertas_seguridad.log"))
           ELSE /\ pc' = [pc EXCEPT ![i] = "connect"]
                /\ UNCHANGED <<result, log>>
    /\ UNCHANGED <<customers, op, query, pending, dbops>>

\* Faulty variant of Connect: a failed connect is attempted again.
ConnectReintenta(i) ==
    /\ pc[i] = "connect"
    /\ \/ /\ dbops' = [dbops EXCEPT ![i] = Append(@, DbCall("connect", << >>, TRUE))]
          /\ pc' = [pc EXCEPT ![i] = IF op[i] = "run_select_query" THEN "set" ELSE "fetch"]
       \/ /\ dbops' = [dbops EXCEPT ![i] = Append(@, DbCall("connect", << >>, FALSE))]
          /\ pc' = pc
    /\ UNCHANGED <<customers, op, query, pending, result, log>>

\* conn = await get_db_connection(), before the try block of every tool: a
\* failure of asyncpg.connect leaves the coroutine as an exception.
Connect(i) ==
    /\ pc[i] = "connect"
    /\ \/ /\ dbops' = [dbops EXCEPT ![i] = Append(@, DbCall("connect", << >>, TRUE))]
          /\ pc' = [pc EXCEPT ![i] = IF op[i] = "run_select_query" THEN "set" ELSE "fetch"]
          /\ UNCHANGED result
       \/ \E e \in ConnectExceptions :
          /\ dbops' = [dbops EXCEPT ![i] = Append(@, DbCall("connect", << >>, FALSE))]
          /\ Finish(i, Raise(e, "connect"))
    /\ UNCHANGED <<customers, op, query, pending, log>>

\* Faulty variant of Except: every exception is logged, not only
\* PostgresError.
ExceptLogsAll(i, e, origin) ==
    /\ log' = registrar_alerta_seguridad(log, i, query[i],
                  [text |-> MOTIVO_ERROR_DB, arg |-> <<e, origin>>])
    /\ pending' = [pending EXCEPT ![i] =
                      IF e = "PostgresError" THEN Return(MSG_ERROR_DB, <<e, origin>>)
                      ELSE Return(MSG_ERROR_SIS, <<e, origin>>)]

\* The except clauses of run_select_query, entered with exception e raised in
\* the try block: PostgresError is logged and answered as a database error,
\* any other Exception as a system error.  The answer waits for finally.
Except(i, e, origin) ==
    IF e = "PostgresError"
    THEN \E written \in BOOLEAN :
           IF written
           THEN /\ log' = registrar_alerta_seguridad(log, i, query[i],
                              [text |-> MOTIVO_ERROR_DB, arg |-> <<e, origin>>])
                /\ pending' = [pending EXCEPT ![i] = Return(MSG_ERROR_DB, <<e, origin>>)]
           ELSE /\ log' = log
                /\ pending' = [pending EXCEPT ![i] = Raise("OSError", "alertas_seguridad.log")]
    ELSE /\ log' = log
         /\ pending' = [pending EXCEPT ![i] = Return(MSG_ERROR_SIS, <<e, origin>>)]

\* Faulty variant of ExecuteReadOnly: a failure of the directive is
\* swallowed and the query is fetched all the same.
ExecuteReadOnlyIgnoraError(i) ==
    /\ pc[i] = "set"
    /\ \E ok \in BOOLEAN :
          dbops' = [dbops EXCEPT ![i] = Append(@, DbCall("execute", READ_ONLY, ok))]
    /\ pc' = [pc EXCEPT ![i] = "fetch"]
    /\ UNCHANGED <<customers, op, query, pending, result, log>>

\* Faulty variant of ExecuteReadOnly: the directive issued before the try
\* block, so that its failure skips the except clauses and finally.
ExecuteReadOnlyOutsideTry(i) ==
    /\ pc[i] = "set"
    /\ \/ /\ dbops' = [dbops EXCEPT ![i] = Append(@, DbCall("execute", READ_ONLY, TRUE))]
          /\ pc' = [pc EXCEPT ![i] = "fetch"]
          /\ UNCHANGED result
       \/ \E e \in DbExceptions :
          /\ dbops' = [dbops EXCEPT ![i] = Append(@, DbCall("execute", READ_ONLY, FALSE))]
          /\ Finish(i, Raise(e, "execute"))
    /\ UNCHANGED <<customers, op, query, pending, log>>

\* await conn.execute("SET SESSION CHARACTERISTICS AS TRANSACTION READ ONLY")
ExecuteReadOnly(i) ==
    /\ pc[i] = "set"
    /\ \/ /\ dbops' = [dbops EXCEPT ![i] = Append(@, DbCall("execute", READ_ONLY, TRUE))]
          /\ pc' = [pc EXCEPT ![i] = "fetch"]
          /\ UNCHANGED <<pending, log>>
       \/ \E e \in DbExceptions :
          /\ dbops' = [dbops EXCEPT ![i] = Append(@, DbCall("execute", READ_ONLY, FALSE))]
          /\ pc' = [pc EXCEPT ![i] = "close"]
          /\ Except(i, e, "execute")
    /\ UNCHANGED <<customers, op, query, result>>

\* Faulty variant of FetchQuery: query_upper, the text prepared for
\* inspection, is sent to the database instead of query.
FetchQueryNormalizada(i) ==
    /\ pc[i] = "fetch"
    /\ op[i] = "run_select_query"
    /\ pc' = [pc EXCEPT ![i] = "close"]
    /\ \/ /\ dbops' = [dbops EXCEPT ![i] =
                          Append(@, DbCall("fetch", Strip(Upper(query[i])), TRUE))]
          /\ \/ /\ pending' = [pending EXCEPT ![i] = Return(MSG_SIN_FILAS, << >>)]
                /\ log' = log
             \/ /\ pending' = [pending EXCEPT ![i] = Return(MSG_RESULTADOS, << >>)]
                /\ log' = log
             \/ Except(i, "TypeError", "format")
       \/ \E e \in DbExceptions :
          /\ dbops' = [dbops EXCEPT ![i] =
                          Append(@, DbCall("fetch", Strip(Upper(query[i])), FALSE))]
          /\ Except(i, e, "fetch")
    /\ UNCHANGED <<customers, op, query, result>>

\* rows = await conn.fetch(query) of run_select_query and the formatting of
\* the rows, up to finally.
FetchQuery(i) ==
    /\ pc[i] = "fetch"
    /\ op[i] = "run_select_query"
    /\ pc' = [pc EXCEPT ![i] = "close"]
    /\ \/ /\ dbops' = [dbops EXCEPT ![i] = Append(@, DbCall("fetch", query[i], TRUE))]
          /\ \/ /\ pending' = [pending EXCEPT ![i] = Return(MSG_SIN_FILAS, << >>)]
                /\ log' = log
             \/ /\ pending' = [pending EXCEPT ![i] = Return(MSG_RESULTADOS, << >>)]
                /\ log' = log
             \/ Except(i, "TypeError", "format")
       \/ \E e \in DbExceptions :
          /\ dbops' = [dbops EXCEPT ![i] = Append(@, DbCall("fetch", query[i], FALSE))]
          /\ Except(i, e, "fetch")
    /\ UNCHANGED <<customers, op, query, result>>

\* The spend thresholds of the avatars.
UMBRAL_CORONA == 150
UMBRAL_DIAMANTE == 100

\* spent = float(r['total_spent'] or 0), in cents
Spent(total) == IF total.null \/ total.cents = 0 THEN 0 ELSE total.cents

\* Faulty variant of Avatar: the thresholds compared with >=.
AvatarInclusivo(spent) ==
    IF spent >= UMBRAL_CORONA * 100 THEN "corona"
    ELSE IF spent >= UMBRAL_DIAMANTE * 100 THEN "diamante"
    ELSE "persona"

\* avatar = crown if spent > 150 else gem if spent > 100 else person
Avatar(spent) ==
    IF spent > UMBRAL_CORONA * 100 THEN "corona"
    ELSE IF spent > UMBRAL_DIAMANTE * 100 THEN "diamante"
    ELSE "persona"

\* The rows of the directory list_creative_customers renders: the avatar
\* and the amount printed of each customer, in the order of the rows.
Directorio(rows) ==
    [k \in 1..Len(rows) |->
        [avatar |-> Avatar(Spent(rows[k])), spent |-> Spent(rows[k])]]

\* What a reporting tool returns for the rows it fetched.
Reporte(o) ==
    IF o = "list_creative_customers" THEN Return(MSG_REPORTE, Directorio(customers))
    ELSE Return(MSG_REPORTE, <<o>>)

\* Faulty variant of FetchReport: close() called after the report instead of
\* in finally, so that an exception of fetch skips it.
FetchReportNoFinally(i) ==
    /\ pc[i] = "fetch"
    /\ op[i] \in ReportingOps
    /\ \/ /\ dbops' = [dbops EXCEPT ![i] = Append(@, DbCall("fetch", FIXED_SQL, TRUE))]
          /\ pending' = [pending EXCEPT ![i] = Reporte(op[i])]
          /\ pc' = [pc EXCEPT ![i] = "close"]
          /\ UNCHANGED result
       \/ \E e \in DbExceptions :
          /\ dbops' = [dbops EXCEPT ![i] = Append(@, DbCall("fetch", FIXED_SQL, FALSE))]
          /\ Finish(i, Raise(e, "fetch"))
          /\ UNCHANGED pending
    /\ UNCHANGED <<customers, op, query, log>>

\* rows = await conn.fetch(query) of a reporting tool and its report.  These
\* tools have no except clause: an exception waits for finally and then
\* leaves the coroutine.
FetchReport(i) ==
    /\ pc[i] = "fetch"
    /\ op[i] \in ReportingOps
    /\ pc' = [pc EXCEPT ![i] = "close"]
    /\ \/ /\ dbops' = [dbops EXCEPT ![i] = Append(@, DbCall("fetch", FIXED_SQL, TRUE))]
          /\ pending' = [pending EXCEPT ![i] = Reporte(op[i])]
       \/ \E e \in DbExceptions :
          /\ dbops' = [dbops EXCEPT ![i] = Append(@, DbCall("fetch", FIXED_SQL, FALSE))]
          /\ pending' = [pending EXCEPT ![i] = Raise(e, "fetch")]
    /\ UNCHANGED <<customers, op, query, result, log>>

\* finally: await conn.close().  The connection is gone afterwards whether
\* close() returns or raises (asyncpg aborts a connection it cannot close
\* gracefully); an exception of close() replaces what the try block decided.
Close(i) ==
    /\ pc[i] = "close"
    /\ \/ /\ dbops' = [dbops EXCEPT ![i] = Append(@, DbCall("close", << >>, TRUE))]
          /\ Finish(i, pending[i])
       \/ /\ dbops' = [dbops EXCEPT ![i] = Append(@, DbCall("close", << >>, FALSE))]
          /\ Finish(i, Raise("InterfaceError", "close"))
    /\ UNCHANGED <<customers, op, query, pending, log>>

Next ==
    \E i \in Inv :
        \/ \E o \in ReportingOps : Call(i, o, << >>)
        \/ \E q \in Queries : Call(i, "run_select_query", q)
        \/ RunSelectGate(i)
        \/ Connect(i)
        \/ ExecuteReadOnly(i)
        \/ FetchQuery(i)
        \/ FetchReport(i)
        \/ Close(i)

Spec == Init /\ [][Next]_vars

\* ---------------------------------------------- the gate, on every input

\* One run_select_query invocation, called with any query of GateInputs.
InitGate ==
    /\ \E q \in GateInputs :
         /\ query = [i \in Inv |-> IF i = 1 THEN q ELSE << >>]
    /\ op = [i \in Inv |-> IF i = 1 THEN "run_select_query" ELSE ""]
    /\ pc = [i \in Inv |-> IF i = 1 THEN "gate" ELSE "idle"]
    /\ pending = [i \in Inv |-> NoResult]
    /\ result = [i \in Inv |-> NoResult]
    /\ dbops = [i \in Inv |-> << >>]
    /\ log = << >>
    /\ customers = ScenarioRows

NextGate == RunSelectGate(1) \/ Connect(1)

SpecGate == InitGate /\ [][NextGate]_vars

\* ------------------------------- run_select_query alone, on every input

\* One run_select_query invocation from its call to its end, called with
\* any query of GateInputs.
NextExec ==
    \/ RunSelectGate(1)
    \/ Connect(1)
    \/ ExecuteReadOnly(1)
    \/ FetchQuery(1)
    \/ Close(1)

SpecExec == InitGate /\ [][NextExec]_vars

\* ------------------------------------- the customer tiers, on every total

\* One list_creative_customers invocation, connected, with any result of
\* TierRows waiting in the database.
InitTier ==
    /\ customers \in TierRows
    /\ op = [i \in Inv |-> IF i = 1 THEN "list_creative_customers" ELSE ""]
    /\ query = [i \in Inv |-> << >>]
    /\ pc = [i \in Inv |-> IF i = 1 THEN "fetch" ELSE "idle"]
    /\ pending = [i \in Inv |-> NoResult]
    /\ result = [i \in Inv |-> NoResult]
    /\ dbops = [i \in Inv |-> IF i = 1 THEN <<DbCall("connect", << >>, TRUE)>> ELSE << >>]
    /\ log = << >>

NextTier == FetchReport(1) \/ Close(1)

SpecTier == InitTier /\ [][NextTier]_vars

\* ------------------------------------------------------ history helpers

\* The positions of invocation i's database calls named call.
CallsOf(i, call) == {k \in DOMAIN dbops[i] : dbops[i][k].call = call}

\* The positions of the log lines invocation i wrote.
AlertsOf(i) == {k \in DOMAIN log : log[k].inv = i}

\* Invocation i holds a connection it has not closed.
HandleOpen(i) ==
    \E k \in CallsOf(i, "connect") :
        /\ dbops[i][k].ok
        /\ ~\E j \in CallsOf(i, "close") : j > k

Returned(i, msg) ==
    pc[i] = "done" /\ result[i].how = "return" /\ result[i].msg = msg

\* The three conditions of the security layer, stated on the text itself.
BeginsWithSelect(q) ==
    LET t == Strip(Upper(q))
    IN  Len(t) >= 6 /\ \A k \in 1..6 : t[k] = SELECT[k]

HasForbiddenWord(q) ==
    \E w \in DOMAIN PALABRAS_PROHIBIDAS :
        LET word == PALABRAS_PROHIBIDAS[w]
        IN  \E k \in 0..(Len(q) - Len(word)) :
                \A j \in 1..Len(word) : UpperChar(q[k + j]) = word[j]

\* A ';' before the last character of the trimmed text.
HasInnerSeparator(q) ==
    LET t == Strip(q) IN \E k \in 1..(Len(t) - 1) : t[k] = ";"

\* The three conditions for every query of the concurrent specification (and
\* the empty text of an invocation without a query), in one table.
Checks ==
    [q \in Queries \cup {<< >>} |->
        [select |-> BeginsWithSelect(q),
         word   |-> HasForbiddenWord(q),
         inner  |-> HasInnerSeparator(q)]]

SecurityMessages == {MSG_NO_SELECT, MSG_PROHIBIDA, MSG_MULTI}

\* ------------------------------------------------------------- claims

\* C1: a run_select_query invocation makes a database call (connect
\* included) only if its query begins with SELECT, holds no forbidden word
\* and has no ';' before its last character; a rejected invocation's list of
\* database calls stays empty, whatever the other invocations do.
C1_OnlyAllowedReachDatabase ==
    \A i \in Inv :
        (op[i] = "run_select_query"
           /\ (dbops[i] # << >> \/ pc[i] \in {"connect", "set", "fetch", "close"}))
            => /\ Checks[query[i]].select
               /\ ~Checks[query[i]].word
               /\ ~Checks[query[i]].inner

\* Two concurrent invocations: one rejected and finished without a database
\* call, the other one allowed and its query fetched.
C1_Witness ==
    \E i, j \in Inv :
        /\ i # j
        /\ Returned(i, MSG_MULTI) /\ dbops[i] = << >>
        /\ op[j] = "run_select_query"
        /\ \E k \in CallsOf(j, "fetch") : dbops[j][k].stmt = query[j]

\* C2 as stated: every query that begins with SELECT and has a ';' before
\* the last character of its trimmed text is answered with the
\* multiple-statements error.
C2_Original ==
    (pc[1] = "done" /\ result[1].how = "return"
       /\ BeginsWithSelect(query[1]) /\ HasInnerSeparator(query[1]))
        => result[1].msg = MSG_MULTI

\* C2 amended: a query that begins with SELECT, holds no forbidden word and
\* has a ';' before the last character of its trimmed text never reaches the
\* database and, when answered, is answered with the multiple-statements
\* error and logged with that reason; a query that begins with SELECT, holds
\* no forbidden word and has no ';' but the last character of its trimmed
\* text passes the gate.
C2_MultiStatement ==
    (pc[1] # "gate" /\ BeginsWithSelect(query[1]) /\ ~HasForbiddenWord(query[1]))
        => IF HasInnerSeparator(query[1])
           THEN /\ pc[1] = "done" /\ dbops[1] = << >>
                /\ result[1].how = "return" =>
                     /\ result[1] = Return(MSG_MULTI, << >>)
                     /\ Len(log) = 1 /\ log[1].motivo.text = MOTIVO_MULTI
           ELSE /\ result[1].how = "none" \/ dbops[1] # << >>
                /\ log = << >>

\* A lower-case select with a ';' in the middle and one at the end, rejected
\* as multiple statements.
C2_Witness ==
    /\ Returned(1, MSG_MULTI)
    /\ query[1] = <<"s","e","l","e","c","t">> \o <<";">> \o <<";">>

\* C3: a query that begins with SELECT and holds one of the seven words, in
\* any letter case and also inside an identifier, never reaches the database
\* and, when answered, is answered with the forbidden-word error naming a
\* word of the list that occurs in it.
C3_ForbiddenKeyword ==
    (pc[1] # "gate" /\ BeginsWithSelect(query[1]) /\ HasForbiddenWord(query[1]))
        => /\ pc[1] = "done" /\ dbops[1] = << >>
           /\ result[1].how = "return" =>
                /\ result[1].msg = MSG_PROHIBIDA
                /\ \E w \in DOMAIN PALABRAS_PROHIBIDAS :
                       /\ result[1].arg = PALABRAS_PROHIBIDAS[w]
                       /\ Contains(Upper(query[1]), PALABRAS_PROHIBIDAS[w])
                /\ Len(log) = 1 /\ log[1].motivo.text = MOTIVO_PROHIBIDA

\* The identifier updated_at after a lower-case select: rejected for UPDATE.
C3_Witness ==
    /\ Returned(1, MSG_PROHIBIDA)
    /\ result[1].arg = <<"U","P","D","A","T","E">>
    /\ query[1] = <<"s","e","l","e","c","t">> \o <<" ">>
                    \o <<"u","p","d","a","t","e","d","_","a","t">>

\* C4: a query whose trimmed, upper-cased text does not begin with SELECT
\* (the empty and the whitespace-only query included) never reaches the
\* database and is answered, when answered, with the only-SELECT error,
\* whatever else it contains.
C4_NotSelect ==
    (pc[1] # "gate" /\ ~BeginsWithSelect(query[1]))
        => /\ pc[1] = "done" /\ dbops[1] = << >>
           /\ result[1].how = "return" => result[1] = Return(MSG_NO_SELECT, << >>)

\* The whitespace-only query, answered with the only-SELECT error.
C4_Witness ==
    /\ Returned(1, MSG_NO_SELECT)
    /\ query[1] = <<" ">> \o <<"\n">>

\* C5 as stated: a query that does not begin with SELECT but holds a
\* forbidden word is answered with an error naming that word, and the one
\* log line's reason names it.
C5_Original ==
    (pc[1] = "done" /\ result[1].how = "return"
       /\ ~BeginsWithSelect(query[1]) /\ HasForbiddenWord(query[1]))
        => /\ Contains(Upper(query[1]), result[1].arg) /\ result[1].arg # << >>
           /\ Len(log) = 1 /\ log[1].motivo.arg = result[1].arg

\* C5 amended: a query that does not begin with SELECT but holds a forbidden
\* word ("DROP TABLE customer;") is answered with the only-SELECT error,
\* which names no word; exactly one line is logged, its reason is the
\* not-SELECT reason and names no word, and the word stands only in the
\* line's copy of the query.
C5_NotSelectWinsOverKeyword ==
    (pc[1] = "done" /\ result[1].how = "return"
       /\ ~BeginsWithSelect(query[1]) /\ HasForbiddenWord(query[1]))
        => /\ result[1].msg = MSG_NO_SELECT /\ result[1].arg = << >>
           /\ Len(log) = 1
           /\ log[1].motivo = [text |-> MOTIVO_NO_SELECT, arg |-> << >>]
           /\ log[1].query = query[1]

C5_Witness ==
    /\ Returned(1, MSG_NO_SELECT)
    /\ query[1] = Q_DropTable
    /\ Len(log) = 1

\* C6: an invocation that ended with a security error or a database error
\* string wrote exactly one log line, and the line holds the query as the
\* caller gave it; no invocation ever writes more than one line, and every
\* line holds its writer's query unchanged.
C6_OneAlertPerRejection ==
    /\ \A i \in Inv :
           /\ Cardinality(AlertsOf(i)) <= 1
           /\ (pc[i] = "done" /\ result[i].how = "return"
                 /\ result[i].msg \in SecurityMessages \cup {MSG_ERROR_DB})
                  => Cardinality(AlertsOf(i)) = 1
    /\ \A k \in DOMAIN log : log[k].query = query[log[k].inv]

\* A rejected query with surrounding whitespace and lower-case letters and a
\* query that failed in the database, each with its line.
C6_Witness ==
    \E i, j \in Inv :
        /\ Returned(i, MSG_PROHIBIDA) /\ query[i] = Q_UpdatedAt
        /\ Returned(j, MSG_ERROR_DB)
        /\ Cardinality(AlertsOf(i)) = 1 /\ Cardinality(AlertsOf(j)) = 1

\* C7 as stated: every finished invocation obtained exactly one connection
\* and closed it exactly once.
C7_Original ==
    \A i \in Inv :
        pc[i] = "done" =>
            /\ Cardinality({k \in CallsOf(i, "connect") : dbops[i][k].ok}) = 1
            /\ Cardinality(CallsOf(i, "close")) = 1

\* C7 amended: a finished invocation called connect exactly once, unless it
\* is a run_select_query invocation rejected by the gate, which never calls
\* it; when connect succeeded, close was called exactly once, after every
\* other call; when connect failed or was never called, close was not
\* called.
C7_AtMostOneHandleClosedOnce ==
    \A i \in Inv :
        /\ Cardinality(CallsOf(i, "connect")) <= 1
        /\ Cardinality(CallsOf(i, "close")) <= 1
        /\ pc[i] = "done" =>
             /\ (dbops[i] = << >>) <=>
                    (op[i] = "run_select_query"
                       /\ (~Checks[query[i]].select \/ Checks[query[i]].word
                             \/ Checks[query[i]].inner))
             /\ dbops[i] # << >> =>
                  /\ dbops[i][1].call = "connect"
                  /\ IF dbops[i][1].ok
                     THEN CallsOf(i, "close") = {Len(dbops[i])} /\ Len(dbops[i]) > 1
                     ELSE Len(dbops[i]) = 1

\* An invocation whose read-only directive failed, finished, with its
\* connection closed once.
C7_Witness ==
    \E i \in Inv :
        /\ pc[i] = "done"
        /\ \E k \in CallsOf(i, "execute") : ~dbops[i][k].ok
        /\ Cardinality(CallsOf(i, "close")) = 1

\* C8: when an invocation has finished, by returning or by raising, it holds
\* no open connection, whatever happened in it and whatever the other
\* invocations do.
C8_NoHandleOutlivesCall ==
    \A i \in Inv : pc[i] = "done" => ~HandleOpen(i)

\* A reporting tool whose fetch raised and a run_select_query whose log
\* write failed after a database error, both finished, while both had
\* connected.
C8_Witness ==
    \E i, j \in Inv :
        /\ pc[i] = "done" /\ op[i] \in ReportingOps
        /\ result[i] = Raise("PostgresError", "fetch")
        /\ pc[j] = "done" /\ op[j] = "run_select_query"
        /\ result[j] = Raise("OSError", "alertas_seguridad.log")
        /\ CallsOf(j, "connect") # {}

\* C9: every finished invocation returned a string; none ended by raising.
C9_NoExceptionPropagates ==
    \A i \in Inv : pc[i] = "done" => result[i].how = "return"

\* C10: a log line is written only by a run_select_query invocation that
\* was rejected (it made no database call) or whose execute or fetch failed
\* with a PostgresError; an invocation that returned rows, the no-results
\* text or a system error, one whose connect failed, and every reporting
\* invocation wrote none.
C10_AlertsOnlyOnRejectionOrDbError ==
    /\ \A k \in DOMAIN log :
           LET i == log[k].inv
           IN  /\ op[i] = "run_select_query"
               /\ IF log[k].motivo.text = MOTIVO_ERROR_DB
                  THEN \E c \in DOMAIN dbops[i] :
                           /\ dbops[i][c].call \in {"execute", "fetch"}
                           /\ ~dbops[i][c].ok
                           /\ log[k].motivo.arg[1] = "PostgresError"
                  ELSE dbops[i] = << >> /\ pc[i] = "done"
    /\ \A i \in Inv :
           (\/ op[i] \in ReportingOps
            \/ result[i].msg \in {MSG_SIN_FILAS, MSG_RESULTADOS, MSG_ERROR_SIS}
            \/ result[i].origin = "connect")
               => AlertsOf(i) = {}

\* A system error, a no-results answer beside a line written by another
\* invocation's rejection.
C10_Witness ==
    \E i, j \in Inv :
        /\ Returned(i, MSG_ERROR_SIS)
        /\ Returned(j, MSG_NO_SELECT)
        /\ AlertsOf(i) = {} /\ Cardinality(AlertsOf(j)) = 1

\* The reason of log line l fits the query of the same line: a line is one
\* invocation's alert, not the reason of one and the query of another.
LineIsWhole(l) ==
    /\ l.query = query[l.inv]
    /\ l.motivo.text \in {MOTIVO_NO_SELECT, MOTIVO_PROHIBIDA, MOTIVO_MULTI, MOTIVO_ERROR_DB}
    /\ l.motivo.text = MOTIVO_NO_SELECT => ~Checks[l.query].select
    /\ l.motivo.text = MOTIVO_PROHIBIDA =>
           /\ Checks[l.query].select
           /\ Contains(Upper(l.query), l.motivo.arg) /\ l.motivo.arg # << >>
    /\ l.motivo.text = MOTIVO_MULTI =>
           Checks[l.query].select /\ ~Checks[l.query].word /\ Checks[l.query].inner
    /\ l.motivo.text = MOTIVO_ERROR_DB =>
           Checks[l.query].select /\ ~Checks[l.query].word /\ ~Checks[l.query].inner

\* C11: with concurrent invocations writing alerts, every step leaves the
\* log as it is or appends exactly one whole line of one invocation after
\* the lines already there: no line is lost, changed or mixed from two
\* invocations' alerts.
C11_AppendsAreAtomic ==
    [][\/ log' = log
       \/ /\ Len(log') = Len(log) + 1
          /\ SubSeq(log', 1, Len(log)) = log
          /\ LineIsWhole(log'[Len(log')])]_vars

\* Two invocations' lines in the log, the second written while the writer of
\* the first was still suspended before its close().
C11_Witness ==
    /\ Len(log) = 2
    /\ log[1].inv # log[2].inv
    /\ log[1].motivo.text = MOTIVO_ERROR_DB
    /\ pc[log[1].inv] = "close"
    /\ log[1].query # log[2].query

\* C12: an invocation calls connect at most once and sends the caller's
\* query at most once; after the first failed connect, directive or fetch
\* its only further database call is close(), and it is finished or has
\* only close() left (after a failed connect it is finished at once).
C12_NoRetries ==
    \A i \in Inv :
        /\ Cardinality(CallsOf(i, "connect")) <= 1
        /\ Cardinality(CallsOf(i, "fetch")) <= 1
        /\ \A k \in DOMAIN dbops[i] :
               (~dbops[i][k].ok /\ dbops[i][k].call # "close") =>
                   /\ pc[i] \in {"close", "done"}
                   /\ \A j \in DOMAIN dbops[i] : j > k => dbops[i][j].call = "close"
                   /\ dbops[i][k].call = "connect" => pc[i] = "done" /\ Len(dbops[i]) = k

\* A run_select_query invocation whose fetch failed: connect, directive,
\* the query once, close, and finished.
C12_Witness ==
    \E i \in Inv :
        /\ pc[i] = "done"
        /\ dbops[i] = << DbCall("connect", << >>, TRUE),
                         DbCall("execute", READ_ONLY, TRUE),
                         DbCall("fetch", query[i], FALSE),
                         DbCall("close", << >>, TRUE) >>

\* C13: the directory gives each customer exactly one avatar, decided by
\* the total spend alone: the crown above 150, the gem above 100 and up to
\* 150, the person otherwise, a NULL total counting as 0.
C13_Tiers ==
    (pc[1] \in {"close", "done"} /\ pending[1].how = "return") =>
        /\ Len(pending[1].arg) = Len(customers)
        /\ \A k \in DOMAIN customers :
               LET t == customers[k]
                   a == pending[1].arg[k].avatar
               IN  /\ a \in {"corona", "diamante", "persona"}
                   /\ (a = "corona") <=> (~t.null /\ t.cents > 15000)
                   /\ (a = "diamante") <=> (~t.null /\ t.cents > 10000 /\ t.cents <= 15000)
                   /\ (a = "persona") <=> (t.null \/ t.cents <= 10000)

\* The directory returned for spends 150.00, 150.01, 100.00 and 100.01.
C13_Witness ==
    /\ pc[1] = "done" /\ result[1].how = "return"
    /\ customers = <<Total(15000), Total(15001), Total(10000), Total(10001)>>
    /\ [k \in 1..4 |-> result[1].arg[k].avatar]
           = <<"diamante", "corona", "persona", "diamante">>

\* C14: in a run_select_query invocation the caller's query is fetched only
\* directly after the read-only directive has succeeded on the connection
\* the invocation opened; when the directive failed, the query is never
\* fetched.
C14_ReadOnlyBeforeQuery ==
    \A i \in Inv :
        op[i] = "run_select_query" =>
            /\ \A k \in CallsOf(i, "fetch") :
                   /\ k = 3
                   /\ dbops[i][1] = DbCall("connect", << >>, TRUE)
                   /\ dbops[i][2] = DbCall("execute", READ_ONLY, TRUE)
            /\ (\E k \in CallsOf(i, "execute") : ~dbops[i][k].ok)
                   => CallsOf(i, "fetch") = {}

\* One invocation finished after its directive failed, without a fetch, and
\* another whose query was fetched after the directive.
C14_Witness ==
    \E i, j \in Inv :
        /\ pc[i] = "done"
        /\ dbops[i] = << DbCall("connect", << >>, TRUE),
                         DbCall("execute", READ_ONLY, FALSE),
                         DbCall("close", << >>, TRUE) >>
        /\ op[j] = "run_select_query"
        /\ CallsOf(j, "fetch") = {3}

\* C15: a failing append to the log never takes the place of the answer: a
\* finished run_select_query invocation whose query the gate rejects has
\* returned its security error, and no invocation ends with the exception
\* of the log write.
C15_SinkFailureNeverMasks ==
    \A i \in Inv :
        (pc[i] = "done" /\ op[i] = "run_select_query") =>
            /\ (~Checks[query[i]].select \/ Checks[query[i]].word \/ Checks[query[i]].inner)
                   => result[i].how = "return" /\ result[i].msg \in SecurityMessages
            /\ result[i].origin # "alertas_seguridad.log"

\* Word w of the list occurs in q, in any letter case.
WordOccurs(q, w) ==
    LET word == PALABRAS_PROHIBIDAS[w]
    IN  \E k \in 0..(Len(q) - Len(word)) :
            \A j \in 1..Len(word) : UpperChar(q[k + j]) = word[j]

\* C16: every query that fails at least one check is rejected, and the
\* answer and the logged reason are those of the first failed check in the
\* order SELECT prefix, forbidden word, ';' before the last character; the
\* forbidden word named is the first entry of the list that occurs in the
\* query, wherever it stands in the text.
C16_CheckOrder ==
    pc[1] # "gate" =>
        LET q == query[1]
            first == CHOOSE w \in DOMAIN PALABRAS_PROHIBIDAS :
                         /\ WordOccurs(q, w)
                         /\ \A v \in 1..(w - 1) : ~WordOccurs(q, v)
            expected ==
                IF ~BeginsWithSelect(q)
                THEN [msg |-> MSG_NO_SELECT, motivo |-> MOTIVO_NO_SELECT, arg |-> << >>]
                ELSE IF HasForbiddenWord(q)
                THEN [msg |-> MSG_PROHIBIDA, motivo |-> MOTIVO_PROHIBIDA,
                      arg |-> PALABRAS_PROHIBIDAS[first]]
                ELSE [msg |-> MSG_MULTI, motivo |-> MOTIVO_MULTI, arg |-> << >>]
        IN  (~BeginsWithSelect(q) \/ HasForbiddenWord(q) \/ HasInnerSeparator(q)) =>
                /\ pc[1] = "done" /\ dbops[1] = << >>
                /\ result[1].how = "return" =>
                     /\ result[1] = Return(expected.msg, expected.arg)
                     /\ log = <<[inv |-> 1, query |-> q,
                                 motivo |-> [text |-> expected.motivo, arg |-> expected.arg]]>>

\* SELECT, then Insert, then DROP: the word named is DROP, the earlier entry
\* of the list, although Insert stands first in the text.
C16_Witness ==
    /\ Returned(1, MSG_PROHIBIDA)
    /\ query[1] = SELECT \o <<"I","n","s","e","r","t">> \o <<"D","R","O","P">>
    /\ result[1].arg = <<"D","R","O","P">>

\* C17: the upper-cased, trimmed text serves the checks only: the statement
\* fetched for an allowed query is the caller's text, character for
\* character, with its letter case, its surrounding whitespace and its
\* trailing ';', and so is the query of every log line; the only other
\* statement sent is the read-only directive.
C17_OriginalTextPassedThrough ==
    /\ \A k \in DOMAIN dbops[1] :
           /\ dbops[1][k].call = "fetch" => dbops[1][k].stmt = query[1]
           /\ dbops[1][k].call = "execute" => dbops[1][k].stmt = READ_ONLY
    /\ \A k \in DOMAIN log : log[k].query = query[1]
    /\ pc[1] = "done" /\ result[1].how = "return" /\ result[1].msg = MSG_ERROR_DB
           => Len(log) = 1

\* A lower-case query with a leading blank and a trailing ';', fetched as
\* it was given and, the fetch failing, logged as it was given.
C17_Witness ==
    /\ query[1] = <<" ">> \o <<"s","e","l","e","c","t">> \o <<";">>
    /\ Returned(1, MSG_ERROR_DB)
    /\ dbops[1][3] = DbCall("fetch", query[1], FALSE)
    /\ Len(log) = 1 /\ log[1].query = query[1]
    /\ Strip(Upper(query[1])) # query[1]

====
